---- MODULE Spec2Model ----
(***************************************************************************)
(* A model of Data_Simulation/data_generate.py: the record synthesizer     *)
(* generate_fraud_data_chunk and the chunked writer stream_to_csv.         *)
(*                                                                         *)
(* Randomness.  Every call on Python's `random` module is modelled by the  *)
(* unit draw u it consumes, u = floor(100 * random.random()) in 0..99:     *)
(*   random.random() < p      is   u < 100 p                               *)
(*   random.uniform(a, b)     is   a + (b - a) * u / 100                   *)
(*   random.randint(a, b)     is   a + floor(u * (b - a + 1) / 100)        *)
(*   random.choice(seq)       is   seq[floor(u * len(seq) / 100)]          *)
(*   random.choices(seq, w)   is   the bucket of u in the cumulative w     *)
(* Amounts are kept in cents (round(x, 2) keeps two decimals).             *)
(* Faker draws from a generator of its own (seeded by Faker.seed).         *)
(***************************************************************************)
EXTENDS Integers, Sequences, FiniteSets, TLC

VARIABLES
    pc,             \* position of the caller / of stream_to_csv's loop
    total_records,  \* stream_to_csv argument
    chunk_size,     \* stream_to_csv argument
    i,              \* loop variable of stream_to_csv (batch start offset)
    first_chunk,    \* stream_to_csv local
    num_records,    \* argument of the last generate_fraud_data_chunk call
    users,          \* user pool built by the last generate_fraud_data_chunk call
    chunk_df,       \* rows returned by the last generate_fraud_data_chunk call
    error,          \* kind of the exception that ended the last call, or "none"
    file,           \* the destination file: its lines (<<>>: absent)
    rand_state,     \* state of the global `random` generator
    faker_state,    \* state of Faker's generator
    salt,           \* the interpreter's string-hash key (chosen per process)
    now,            \* the clock reading used by date_time_between
    calls,          \* number of calls made so far (bounded by MaxCalls)
    before,         \* history: the file when the current stream_to_csv call began
    committed,      \* history: the file after the last batch appended in full
    batches,        \* history: sizes of the batches the current call appended
    drawn,          \* history: the process has called the generator since it started
    fresh,          \* history: the current call began in a process that had not
                    \* drawn yet, with the destination absent
    runs,           \* history: the completed calls that began so, with their output
    rec             \* the locals of one loop iteration (record-level specification)

vars == << pc, total_records, chunk_size, i, first_chunk, num_records, users,
           chunk_df, error, file, rand_state, faker_state, salt, now, calls,
           before, committed, batches, drawn, fresh, runs, rec >>

(***************************************************************************)
(* Bounds of the model.                                                    *)
(***************************************************************************)
MaxTotal == 17      \* total_records ranges over 1..MaxTotal
MaxStreamTotal == 26 \* total_records of the single call of SpecStream
MaxChunk == 9       \* chunk_size ranges over ChunkSizes, up to MaxChunk
MaxCount == 9       \* a direct generate_fraud_data_chunk call: -1..MaxCount
MaxCalls == 2       \* calls per behaviour
MaxSalt == 1        \* hash keys 0..MaxSalt
MaxNow == 1         \* clock readings 0..MaxNow (the first process starts at 0)
RngPeriod == 16     \* period of the modelled generators
TsWindow == 3       \* width of the '-2y'..'now' window, in clock units
UuidSpace == 50     \* number of distinct uuid4 values
NumCities == 2      \* number of distinct fake.city() values
NumStates == 2      \* number of distinct fake.state_abbr() values

Counts == (-1)..MaxCount

\* The chunk sizes tried: too small for a pool (1 and 7), and 8 and up.
ChunkSizes == {1, 7} \cup (8..MaxChunk)

(***************************************************************************)
(* Module-level data.                                                      *)
(***************************************************************************)
SEED == 42

MERCHANTS ==
    << <<"amazon", "online">>, <<"walmart", "retail">>, <<"mcdonalds", "restaurant">>,
       <<"shell", "gas">>, <<"starbucks", "restaurant">>, <<"target", "retail">>,
       <<"uber", "transport">>, <<"netflix", "subscription">>, <<"paypal", "financial">>,
       <<"apple", "online">>, <<"google", "online">>, <<"microsoft", "online">> >>

COUNTRIES == <<"US", "GB", "DE", "FR", "CA", "IN", "BR", "ZA", "NG", "CN", "RU">>

DEVICE_TYPES == <<"mobile", "desktop", "tablet">>

PAYMENT_METHODS == <<"credit_card", "debit_card", "digital_wallet", "bank_transfer">>
PAYMENT_WEIGHTS == <<45, 35, 15, 5>>

TRANSACTION_TYPES == <<"purchase", "withdrawal", "transfer", "refund">>
TRANSACTION_TYPE_WEIGHTS == <<75, 15, 8, 2>>

TRANSACTION_STATUSES == <<"completed", "failed", "pending">>
TRANSACTION_STATUS_WEIGHTS == <<92, 6, 2>>

amount_ranges(category) ==
    CASE category = "restaurant"   -> <<5, 150>>
      [] category = "retail"       -> <<10, 500>>
      [] category = "gas"          -> <<20, 100>>
      [] category = "online"       -> <<15, 300>>
      [] category = "transport"    -> <<10, 80>>
      [] category = "subscription" -> <<5, 50>>
      [] category = "financial"    -> <<50, 1000>>
      [] OTHER                     -> <<10, 200>>

COLUMNS ==
    << "transaction_id", "user_id", "transaction_timestamp", "transaction_amount",
       "merchant_id", "merchant_category", "payment_method", "ip_address",
       "geolocation", "device_id", "device_type", "transaction_type",
       "transaction_status", "is_fraud", "risk_score" >>

(***************************************************************************)
(* The `random` module's functions, by the unit draw u in 0..99.           *)
(***************************************************************************)
Cents(x) == 100 * x

RandomBelow(u, p) == u < p

Uniform(a, b, u) == Cents(a) + (b - a) * u

RandInt(a, b, u) == a + (u * (b - a + 1)) \div 100

Choice(seq, u) == seq[1 + (u * Len(seq)) \div 100]

RECURSIVE CumWeight(_, _)
CumWeight(weights, k) == IF k = 0 THEN 0 ELSE weights[k] + CumWeight(weights, k - 1)

Choices(items, weights, u) ==
    items[CHOOSE k \in 1..Len(items) :
              CumWeight(weights, k - 1) <= u /\ u < CumWeight(weights, k)]

(***************************************************************************)
(* Faker's providers.  An address is its four octets; the sequences below  *)
(* sample the networks Faker draws from: ipv4_private() from 10.0.0.0/8,   *)
(* 172.16.0.0/12 and 192.168.0.0/16, ipv4_public() from every network     *)
(* that is neither private nor reserved, which includes addresses whose    *)
(* first octet is 172 (outside 172.16/12) or 192 (outside 192.168/16).     *)
(***************************************************************************)
PRIVATE_ADDRESSES == << <<10, 1, 2, 3>>, <<172, 16, 0, 7>>, <<192, 168, 1, 9>> >>
PUBLIC_ADDRESSES  == << <<8, 8, 4, 4>>, <<172, 32, 0, 7>>, <<192, 12, 1, 9>> >>

ipv4_private(x) == PRIVATE_ADDRESSES[1 + (x % Len(PRIVATE_ADDRESSES))]
ipv4_public(x) == PUBLIC_ADDRESSES[1 + (x % Len(PUBLIC_ADDRESSES))]

\* str(ip): the octets joined by dots.
IpString(ip) ==
    ToString(ip[1]) \o "." \o ToString(ip[2]) \o "." \o ToString(ip[3]) \o "." \o ToString(ip[4])

\* ip_address.startswith(('10.', '192.', '172.')): the prefix ends with the
\* dot, so it matches exactly the addresses whose first octet is the number.
StartsWithAny(ip, octets) == ip[1] \in octets

\* hash(user_id) for a str: keyed by the interpreter's per-process hash key.
StrHash(key, user_id) == user_id * 31 + key * 7919 + 17

\* f"{n:04d}" for 0 <= n < 10000.
Pad4(n) ==
    (IF n < 10 THEN "000" ELSE IF n < 100 THEN "00" ELSE IF n < 1000 THEN "0" ELSE "")
        \o ToString(n)

(***************************************************************************)
(* The two generators.  A state is a position in the generator's output    *)
(* sequence; seeding fixes the position, each draw advances it by one.     *)
(***************************************************************************)
RandomOutput(x) == (x * x * 7 + x * 13 + 5) % 100
FakerOutput(x) == x * x * 3 + x * 11 + 2

RandomSeed(seed) == seed % RngPeriod
FakerSeed(seed) == (3 * seed + 1) % RngPeriod

Advance(state, k) == (state + k) % RngPeriod

\* The k-th next output of random.random(), as a unit draw.
RandomUnit(state, k) == RandomOutput(Advance(state, k))

\* The k-th next output of Faker's generator, reduced to 0..n-1.
FakerValue(state, k, n) == FakerOutput(Advance(state, k)) % n

(***************************************************************************)
(* One loop iteration of generate_fraud_data_chunk (lines 47-122).         *)
(* d: the unit draws of the iteration's `random` calls, by call site;      *)
(* f: the values of its Faker calls.                                       *)
(***************************************************************************)
Clamp_NoLowerBound(fraud_score) == IF fraud_score > 100 THEN 100 ELSE fraud_score

Clamp(fraud_score) ==
    LET upper == IF fraud_score < 100 THEN fraud_score ELSE 100
    IN  IF upper > 0 THEN upper ELSE 0

FraudGate_AtLeast(risk_score, u) == risk_score >= 70 /\ RandomBelow(u, 30)

FraudGate(risk_score, u) == risk_score > 70 /\ RandomBelow(u, 30)

FraudScore(amount, hour, category, method, status, is_private_ip, noise) ==
      (IF amount > Cents(500) THEN 30 ELSE 0)
    + (IF amount > Cents(1000) THEN 20 ELSE 0)
    + (IF hour < 6 \/ hour > 23 THEN 15 ELSE 0)
    + (IF category = "online" THEN 10 ELSE 0)
    + (IF method = "digital_wallet" THEN 5 ELSE 0)
    + (IF status = "failed" THEN 25 ELSE 0)
    + (IF is_private_ip THEN 20 ELSE 0)
    + noise

Record(pool, d, f, key, clock) ==
    LET user_id == Choice(pool, d.user)
        merchant == Choice(MERCHANTS, d.merchant)
        merchant_name == merchant[1]
        merchant_category == merchant[2]
        device_type == Choice(DEVICE_TYPES, d.device)
        hour == IF RandomBelow(d.hour_gate, 70) THEN RandInt(8, 22, d.hour)
                                                  ELSE RandInt(0, 23, d.hour)
        transaction_time == [day |-> clock - f.ts, hour |-> hour]
        range == amount_ranges(merchant_category)
        amount0 == Uniform(range[1], range[2], d.amount)
        redraw == amount0 > Cents(300) /\ RandomBelow(d.amount_gate, 70)
        amount == IF redraw THEN Uniform(range[1], 300, d.amount2) ELSE amount0
        payment_method == Choices(PAYMENT_METHODS, PAYMENT_WEIGHTS, d.payment)
        country == Choice(COUNTRIES, d.country)
        location == "city" \o ToString(f.city) \o ", " \o "st" \o ToString(f.state)
                        \o ", " \o country
        private_branch == RandomBelow(d.ip_gate, 5)
        ip_address == IF private_branch THEN ipv4_private(f.ip) ELSE ipv4_public(f.ip)
        is_private_ip == StartsWithAny(ip_address, {10, 192, 172})
        device_id == "device_" \o Pad4(StrHash(key, user_id) % 10000)
        transaction_type ==
            Choices(TRANSACTION_TYPES, TRANSACTION_TYPE_WEIGHTS, d.ttype)
        transaction_status ==
            Choices(TRANSACTION_STATUSES, TRANSACTION_STATUS_WEIGHTS, d.status)
        fraud_score ==
            FraudScore(amount, hour, merchant_category, payment_method,
                       transaction_status, is_private_ip, RandInt(-5, 10, d.noise))
        risk_score == Clamp(fraud_score)
        is_fraud == FraudGate(risk_score, d.fraud_gate)
    IN  [ transaction_id |-> f.txn,
          user_id |-> user_id,
          transaction_timestamp |-> transaction_time,
          transaction_amount |-> amount,
          merchant_id |-> "merchant_" \o merchant_name,
          merchant_category |-> merchant_category,
          payment_method |-> payment_method,
          ip_address |-> ip_address,
          geolocation |-> location,
          device_id |-> device_id,
          device_type |-> device_type,
          transaction_type |-> transaction_type,
          transaction_status |-> transaction_status,
          is_fraud |-> is_fraud,
          risk_score |-> risk_score,
          \* locals that are not columns
          hour |-> hour,
          is_private_ip |-> is_private_ip,
          private_branch |-> private_branch,
          fraud_score |-> fraud_score,
          \* number of `random` draws the iteration consumed
          n_random |-> 13 + (IF amount0 > Cents(300) THEN 1 ELSE 0)
                          + (IF redraw THEN 1 ELSE 0)
                          + (IF risk_score > 70 THEN 1 ELSE 0) ]

\* The draws of one iteration, read off the `random` generator in call order.
\* The amount gate and the redraw are drawn only when the code reaches them.
RandomDraws(state) ==
    LET u(k) == RandomUnit(state, k)
        range == amount_ranges(Choice(MERCHANTS, u(1))[2])
        over == Uniform(range[1], range[2], u(5)) > Cents(300)
        a == IF over THEN (IF RandomBelow(u(6), 70) THEN 8 ELSE 7) ELSE 6
    IN  [ user |-> u(0), merchant |-> u(1), device |-> u(2), hour_gate |-> u(3),
          hour |-> u(4), amount |-> u(5), amount_gate |-> u(6), amount2 |-> u(7),
          payment |-> u(a), country |-> u(a + 1), ip_gate |-> u(a + 2),
          ttype |-> u(a + 3), status |-> u(a + 4), noise |-> u(a + 5),
          fraud_gate |-> u(a + 6) ]

\* The Faker values of one iteration, in call order: date_time_between, city,
\* state_abbr, ipv4_private / ipv4_public, uuid4.
FakerDraws(state) ==
    [ ts |-> FakerValue(state, 0, TsWindow + 1),
      city |-> FakerValue(state, 1, NumCities),
      state |-> FakerValue(state, 2, NumStates),
      ip |-> FakerValue(state, 3, UuidSpace),
      txn |-> FakerValue(state, 4, UuidSpace) ]

FakerCallsPerRecord == 5

\* The dict appended to data: the fifteen columns.
Row(r) == [c \in { COLUMNS[k] : k \in 1..Len(COLUMNS) } |-> r[c]]

\* users = [fake.uuid4() for _ in range(num_records // 8)]
PoolSize(n) == n \div 8

UserPool(n, state) ==
    IF PoolSize(n) <= 0 THEN << >>
    ELSE [k \in 1..PoolSize(n) |-> FakerValue(state, k - 1, UuidSpace)]

\* for _ in range(n): ... data.append({...}); random.choice(users) raises
\* IndexError on an empty pool.  A result is [ok, data, rs, fs]: whether the
\* loop ran to its end, the rows, and the generators' states afterwards.
Prepend(r, rest) ==
    [ok |-> rest.ok, data |-> << Row(r) >> \o rest.data, rs |-> rest.rs, fs |-> rest.fs]

RECURSIVE GenerateRows(_, _, _, _, _, _)
AppendRecord(r, n, pool, rs, fs, key, clock) ==
    Prepend(r, GenerateRows(n - 1, pool, Advance(rs, r.n_random),
                            Advance(fs, FakerCallsPerRecord), key, clock))

GenerateRows(n, pool, rs, fs, key, clock) ==
    IF n <= 0 THEN [ok |-> TRUE, data |-> << >>, rs |-> rs, fs |-> fs]
    ELSE IF pool = << >> THEN [ok |-> FALSE, data |-> << >>, rs |-> rs, fs |-> fs]
    ELSE AppendRecord(Record(pool, RandomDraws(rs), FakerDraws(fs), key, clock),
                      n, pool, rs, fs, key, clock)

\* What the call gives its caller: the DataFrame, or the exception.
Outcome(pool, out) ==
    [ok |-> out.ok, error |-> IF out.ok THEN "none" ELSE "IndexError",
     users |-> pool, data |-> IF out.ok THEN out.data ELSE << >>,
     rs |-> out.rs, fs |-> out.fs]

GenerateWithPool(n, pool, rs, fs, key, clock) ==
    Outcome(pool, GenerateRows(n, pool, rs, Advance(fs, Len(pool)), key, clock))

generate_fraud_data_chunk(n, rs, fs, key, clock) ==
    GenerateWithPool(n, UserPool(n, fs), rs, fs, key, clock)

(***************************************************************************)
(* DataFrame.to_csv(full_path, mode='a', header=first_chunk, index=False). *)
(***************************************************************************)
\* repr of a float with at most two decimals: 12.5, 12.0, 12.34.
AmountString(cents) ==
    LET frac == cents % 100
    IN  ToString(cents \div 100) \o "."
            \o (IF frac % 10 = 0 THEN ToString(frac \div 10)
                ELSE IF frac < 10 THEN "0" \o ToString(frac) ELSE ToString(frac))

TimestampString(t) == "day" \o ToString(t.day) \o " " \o ToString(t.hour) \o ":00"

CsvRow(row) ==
    << ToString(row.transaction_id), ToString(row.user_id),
       TimestampString(row.transaction_timestamp),
       AmountString(row.transaction_amount), row.merchant_id, row.merchant_category,
       row.payment_method, IpString(row.ip_address), row.geolocation, row.device_id,
       row.device_type, row.transaction_type, row.transaction_status,
       IF row.is_fraud THEN "True" ELSE "False", ToString(row.risk_score) >>

HeaderLines(header) == IF header THEN << COLUMNS >> ELSE << >>

ToCsvLines(df, header) == HeaderLines(header) \o [k \in 1..Len(df) |-> CsvRow(df[k])]

(***************************************************************************)
(* The state machine.  pc is "idle" between calls; inside stream_to_csv it *)
(* is "loop" (at the head of the for loop) or "write" (a batch generated,  *)
(* to_csv next); a call ends "returned" or "raised" ("gen_returned",       *)
(* "gen_raised" for a direct generate_fraud_data_chunk call).              *)
(***************************************************************************)
Init ==
    /\ pc = "idle"
    /\ total_records = 0
    /\ chunk_size = 0
    /\ i = 0
    /\ first_chunk = FALSE
    /\ num_records = 0
    /\ users = << >>
    /\ chunk_df = << >>
    /\ error = "none"
    /\ file = << >>
    /\ rand_state = RandomSeed(SEED)
    /\ faker_state = FakerSeed(SEED)
    /\ salt \in 0..MaxSalt
    /\ now = 0
    /\ calls = 0
    /\ before = << >>
    /\ committed = << >>
    /\ batches = << >>
    /\ drawn = FALSE
    /\ fresh = FALSE
    /\ runs = << >>
    /\ rec = << >>

\* The batch size of the iteration at offset i.
BatchSize == IF chunk_size < total_records - i THEN chunk_size ELSE total_records - i

\* Where control goes after the generate call of line 143: an exception is
\* not caught, so it leaves stream_to_csv.
AfterGenerate_Swallow(ok) == "write"

AfterGenerate(ok) == IF ok THEN "write" ELSE "raised"

\* stream_to_csv is called: mkdir, full_path, first_chunk = True, the loop starts.
stream_to_csv(total, chunk) ==
    /\ pc = "idle"
    /\ calls < MaxCalls
    /\ pc' = "loop"
    /\ total_records' = total
    /\ chunk_size' = chunk
    /\ i' = 0
    /\ first_chunk' = TRUE
    /\ calls' = calls + 1
    /\ before' = file
    /\ committed' = file
    /\ batches' = << >>
    /\ fresh' = (~drawn /\ file = << >>)
    /\ UNCHANGED << num_records, users, chunk_df, error, file, rand_state,
                    faker_state, salt, now, drawn, runs, rec >>

\* Line 143: chunk_df = generate_fraud_data_chunk(min(chunk_size, total_records - i)).
LoopGenerate ==
    /\ pc = "loop"
    /\ i < total_records
    /\ \E g \in {generate_fraud_data_chunk(BatchSize, rand_state, faker_state, salt, now)} :
           /\ pc' = AfterGenerate(g.ok)
           /\ num_records' = BatchSize
           /\ users' = g.users
           /\ chunk_df' = g.data
           /\ error' = g.error
           /\ rand_state' = g.rs
           /\ faker_state' = g.fs
    /\ drawn' = TRUE
    /\ UNCHANGED << total_records, chunk_size, i, first_chunk, file, salt, now,
                    calls, before, committed, batches, fresh, runs, rec >>

\* Lines 144-145: the batch is appended, first_chunk = False, the next offset.
LoopToCsv ==
    /\ pc = "write"
    /\ file' = file \o ToCsvLines(chunk_df, first_chunk)
    /\ first_chunk' = FALSE
    /\ i' = i + chunk_size
    /\ pc' = "loop"
    /\ committed' = file'
    /\ batches' = Append(batches, Len(chunk_df))
    /\ UNCHANGED << total_records, chunk_size, num_records, users, chunk_df, error,
                    rand_state, faker_state, salt, now, calls, before, drawn,
                    fresh, runs, rec >>

\* Line 144 raises (the file cannot be appended to, the disk fills up): to_csv
\* writes through a buffered handle that is flushed when it is closed, so any
\* leading part of the batch's lines may have reached the file.
LoopToCsvFails ==
    /\ pc = "write"
    /\ \E lines \in {ToCsvLines(chunk_df, first_chunk)} :
           \E k \in 0..(Len(lines) - 1) : file' = file \o SubSeq(lines, 1, k)
    /\ pc' = "raised"
    /\ error' = "IOFailure"
    /\ UNCHANGED << total_records, chunk_size, i, first_chunk, num_records, users,
                    chunk_df, rand_state, faker_state, salt, now, calls, before,
                    committed, batches, drawn, fresh, runs, rec >>

\* The range is exhausted: logging.info, return.
LoopEnd ==
    /\ pc = "loop"
    /\ i >= total_records
    /\ pc' = "returned"
    /\ runs' = IF fresh
               THEN Append(runs, [total |-> total_records, chunk |-> chunk_size,
                                  out |-> file])
               ELSE runs
    /\ UNCHANGED << total_records, chunk_size, i, first_chunk, num_records, users,
                    chunk_df, error, file, rand_state, faker_state, salt, now,
                    calls, before, committed, batches, drawn, fresh, rec >>

\* generate_fraud_data_chunk is called on its own.
CallGenerate(n) ==
    /\ pc = "idle"
    /\ calls < MaxCalls
    /\ \E g \in {generate_fraud_data_chunk(n, rand_state, faker_state, salt, now)} :
           /\ pc' = IF g.ok THEN "gen_returned" ELSE "gen_raised"
           /\ users' = g.users
           /\ chunk_df' = g.data
           /\ error' = g.error
           /\ rand_state' = g.rs
           /\ faker_state' = g.fs
    /\ num_records' = n
    /\ calls' = calls + 1
    /\ drawn' = TRUE
    /\ UNCHANGED << total_records, chunk_size, i, first_chunk, file, salt, now,
                    before, committed, batches, fresh, runs, rec >>

\* The call is over: its frame is gone, the caller goes on.
Finish ==
    /\ pc \in {"returned", "raised", "gen_returned", "gen_raised"}
    /\ pc' = "idle"
    /\ total_records' = 0
    /\ chunk_size' = 0
    /\ i' = 0
    /\ first_chunk' = FALSE
    /\ num_records' = 0
    /\ users' = << >>
    /\ chunk_df' = << >>
    /\ error' = "none"
    /\ before' = << >>
    /\ committed' = << >>
    /\ batches' = << >>
    /\ fresh' = FALSE
    /\ UNCHANGED << file, rand_state, faker_state, salt, now, calls, drawn, runs, rec >>

\* The process exits and the script is started again: lines 18-20 seed both
\* generators, the interpreter picks a hash key, the clock has moved on.
Restart ==
    /\ pc = "idle"
    /\ calls > 0
    /\ calls < MaxCalls
    /\ drawn
    /\ rand_state' = RandomSeed(SEED)
    /\ faker_state' = FakerSeed(SEED)
    /\ salt' \in 0..MaxSalt
    /\ now' \in now..MaxNow
    /\ drawn' = FALSE
    /\ UNCHANGED << pc, total_records, chunk_size, i, first_chunk, num_records,
                    users, chunk_df, error, file, calls, before, committed,
                    batches, fresh, runs, rec >>

\* The caller removes the output file between two calls.
Unlink ==
    /\ pc = "idle"
    /\ calls < MaxCalls
    /\ file # << >>
    /\ file' = << >>
    /\ UNCHANGED << pc, total_records, chunk_size, i, first_chunk, num_records,
                    users, chunk_df, error, rand_state, faker_state, salt, now,
                    calls, before, committed, batches, drawn, fresh, runs, rec >>

Next ==
    \/ \E total \in 1..MaxTotal, chunk \in ChunkSizes : stream_to_csv(total, chunk)
    \/ LoopGenerate
    \/ LoopToCsv
    \/ LoopToCsvFails
    \/ LoopEnd
    \/ \E n \in Counts : CallGenerate(n)
    \/ Finish
    \/ Restart
    \/ Unlink

Spec == Init /\ [][Next]_vars

(***************************************************************************)
(* One stream_to_csv call, on a destination that is absent or left over    *)
(* from an earlier complete run (total_records = chunk_size = 8).          *)
(***************************************************************************)
LeftOver ==
    ToCsvLines(generate_fraud_data_chunk(8, RandomSeed(SEED), FakerSeed(SEED), 0, 0).data,
               TRUE)

InitStream ==
    /\ pc = "idle"
    /\ total_records = 0
    /\ chunk_size = 0
    /\ i = 0
    /\ first_chunk = FALSE
    /\ num_records = 0
    /\ users = << >>
    /\ chunk_df = << >>
    /\ error = "none"
    /\ file \in {<< >>, LeftOver}
    /\ rand_state = RandomSeed(SEED)
    /\ faker_state = FakerSeed(SEED)
    /\ salt \in 0..MaxSalt
    /\ now = 0
    /\ calls = 0
    /\ before = << >>
    /\ committed = << >>
    /\ batches = << >>
    /\ drawn = FALSE
    /\ fresh = FALSE
    /\ runs = << >>
    /\ rec = << >>

StreamOnce ==
    /\ calls = 0
    /\ \E total \in 1..MaxStreamTotal, chunk \in ChunkSizes : stream_to_csv(total, chunk)

NextStream ==
    \/ StreamOnce
    \/ LoopGenerate
    \/ LoopToCsv
    \/ LoopToCsvFails
    \/ LoopEnd
    \/ Finish

SpecStream == InitStream /\ [][NextStream]_vars

(***************************************************************************)
(* One loop iteration on its own: the draws range over values that reach   *)
(* every branch of the iteration and every value of the noise term.        *)
(***************************************************************************)
\* The least unit draw of each of the n outcomes of choice / randint.
Buckets(n) == { (100 * k + n - 1) \div n : k \in 0..(n - 1) }

\* Whether the first amount draw exceeds 300, so that the gate is drawn.
Over(merchant, amount) ==
    Uniform(amount_ranges(Choice(MERCHANTS, merchant)[2])[1],
            amount_ranges(Choice(MERCHANTS, merchant)[2])[2], amount) > Cents(300)

\* The draws that pick the first merchant of each category.
OnePerCategory ==
    { u \in Buckets(Len(MERCHANTS)) :
        \A v \in Buckets(Len(MERCHANTS)) :
            v < u => Choice(MERCHANTS, v)[2] # Choice(MERCHANTS, u)[2] }

SynthesizeRecord ==
    /\ rec = << >>
    /\ \E merchant \in OnePerCategory, hour_gate \in {69, 70}, amount \in {0, 27, 48, 99},
          payment \in {0, 45, 80, 95}, ip_gate \in {4, 5}, ip \in 0..2,
          status \in {0, 92, 98}, noise \in Buckets(16), fraud_gate \in {29, 30} :
         \E hour \in IF hour_gate < 70 THEN {0} ELSE {0, 25},
            amount_gate \in IF Over(merchant, amount) THEN {69, 70} ELSE {0} :
           \E amount2 \in IF Over(merchant, amount) /\ amount_gate < 70
                          THEN {0, 99} ELSE {0} :
             rec' = << Record(<< FakerValue(faker_state, 0, UuidSpace) >>,
                              [ user |-> 0, merchant |-> merchant, device |-> 0,
                                hour_gate |-> hour_gate, hour |-> hour,
                                amount |-> amount, amount_gate |-> amount_gate,
                                amount2 |-> amount2, payment |-> payment,
                                country |-> 0, ip_gate |-> ip_gate, ttype |-> 0,
                                status |-> status, noise |-> noise,
                                fraud_gate |-> fraud_gate ],
                              [ ts |-> 0, city |-> 0, state |-> 0, ip |-> ip,
                                txn |-> FakerValue(faker_state, 1, UuidSpace) ],
                              salt, now) >>
    /\ UNCHANGED << pc, total_records, chunk_size, i, first_chunk, num_records, users,
                    chunk_df, error, file, rand_state, faker_state, salt, now, calls,
                    before, committed, batches, drawn, fresh, runs >>

InitRecord == Init /\ salt = 0

NextRecord == SynthesizeRecord

SpecRecord == InitRecord /\ [][NextRecord]_vars

(***************************************************************************)
(* The claims.                                                             *)
(***************************************************************************)
Max(a, b) == IF a > b THEN a ELSE b

Min(a, b) == IF a < b THEN a ELSE b

IsPrefix(s, t) == Len(s) <= Len(t) /\ SubSeq(t, 1, Len(s)) = s

\* The lines of f from position k on.
From(f, k) == SubSeq(f, k, Len(f))

HeaderCount(f) == Cardinality({k \in 1..Len(f) : f[k] = COLUMNS})

RECURSIVE Sum(_)
Sum(s) == IF s = << >> THEN 0 ELSE Head(s) + Sum(Tail(s))

\* The batch sizes of offsets 0, chunk, 2 chunk, ... below total.
ExpectedBatches(total, chunk) ==
    [k \in 1..((total + chunk - 1) \div chunk) |-> Min(chunk, total - (k - 1) * chunk)]

\* Membership in a private network (10.0.0.0/8, 172.16.0.0/12, 192.168.0.0/16).
InPrivateNetwork(ip) ==
    \/ ip[1] = 10
    \/ ip[1] = 172 /\ ip[2] \in 16..31
    \/ ip[1] = 192 /\ ip[2] = 168

GenerateEnded == pc \in {"gen_returned", "gen_raised"}

StreamEnded == pc \in {"returned", "raised"}

\* C1: a direct generate_fraud_data_chunk(N) call with N >= 1 (N from 1 to 7
\* included) completes without error and returns exactly N records.
C1_ReturnsNRecords ==
    (GenerateEnded /\ num_records >= 1)
        => (pc = "gen_returned" /\ error = "none" /\ Len(chunk_df) = num_records)

\* C2: for every total_records >= 1 and chunk_size >= 1, stream_to_csv
\* generates and appends the batches of offsets 0, chunk_size, ... in order,
\* each of size min(chunk_size, total_records - start), each appended before
\* the next is generated; unless the file system fails, the call appends
\* ceil(total_records / chunk_size) batches whose sizes sum to total_records,
\* that is total_records data rows.
C2_BatchesCoverTotal ==
    /\ pc \in {"loop", "write", "returned", "raised"}
           => IsPrefix(batches, ExpectedBatches(total_records, chunk_size))
    /\ pc = "write"
           => /\ Len(chunk_df) = ExpectedBatches(total_records, chunk_size)[Len(batches) + 1]
              /\ file = committed
    /\ (StreamEnded /\ error # "IOFailure")
           => /\ pc = "returned"
              /\ batches = ExpectedBatches(total_records, chunk_size)
              /\ Sum(batches) = total_records
              /\ Len(file) - Len(before) - HeaderCount(From(file, Len(before) + 1))
                     = total_records

\* C3: after a stream_to_csv call that completes, on a destination that was
\* absent or left over from an earlier complete call, the file holds exactly
\* one header row, and it is the first line.
C3_OneHeaderFirst ==
    (pc = "returned" /\ (before = << >> \/ \E k \in 1..Len(runs) : runs[k].out = before))
        => (HeaderCount(file) = 1 /\ file[1] = COLUMNS)

\* C4: generate_fraud_data_chunk with a count of 0 or less fails with an
\* InvalidArgument error instead of returning a result, and nothing is written.
C4_NonPositiveCountFails ==
    (GenerateEnded /\ num_records <= 0)
        => (pc = "gen_raised" /\ error = "InvalidArgument")

\* C5: two complete runs of stream_to_csv, each in a process just started and
\* seeded (seed 42) and each on an absent destination, with the same
\* total_records and chunk_size, produce identical files.
C5_SameSeedSameFile ==
    \A a \in 1..Len(runs), b \in 1..Len(runs) :
        (runs[a].total = runs[b].total /\ runs[a].chunk = runs[b].chunk)
            => runs[a].out = runs[b].out

\* C6 as claimed: when generating or serializing batch k fails, no row of
\* batch k is in the file: the file is as the last complete batch left it.
C6_NoRowOfFailedBatch == pc = "raised" => file = committed

\* What holds of the file when the call has raised.
RaisedState ==
    /\ error \in {"IndexError", "IOFailure"}
    /\ IsPrefix(before, committed)
    /\ IsPrefix(committed, file)
    /\ error = "IndexError" => file = committed
    /\ error = "IOFailure"
           => /\ IsPrefix(From(file, Len(committed) + 1), ToCsvLines(chunk_df, first_chunk))
              /\ Len(file) - Len(committed) < Len(ToCsvLines(chunk_df, first_chunk))

\* C6, amended: a failure of batch k ends the call with the error (it is not
\* swallowed, and nothing is retried); no later batch is written and what the
\* earlier batches and the earlier content of the file are stays unchanged.
\* When it is the generation that fails, no row of batch k is written; when it
\* is to_csv, a leading part of batch k's lines (not all of them) may be.
C6_FailureStopsStream ==
    [][ /\ (pc = "loop" /\ i < total_records
               /\ ~generate_fraud_data_chunk(BatchSize, rand_state, faker_state,
                                             salt, now).ok)
              => (pc' = "raised" /\ error' = "IndexError" /\ file' = file)
        /\ pc = "write"
              => \/ pc' = "loop" /\ error' = "none"
                 \/ pc' = "raised" /\ error' = "IOFailure"
        /\ pc' = "raised" => RaisedState'
        /\ pc = "raised" => (pc' = "idle" /\ file' = file) ]_vars

\* C6's case: the generation of a batch fails after a batch was appended.
C6_Witness == pc = "raised" /\ error = "IndexError" /\ Len(batches) >= 1 /\ before # << >>

\* C7: for a batch of N >= 1 records the pool has exactly max(1, N // 8)
\* members and every record's user_id is a member of that call's pool.
C7_PoolSize ==
    (GenerateEnded /\ num_records >= 1)
        => /\ Len(users) = Max(1, num_records \div 8)
           /\ \A k \in 1..Len(chunk_df) :
                  \E m \in 1..Len(users) : chunk_df[k].user_id = users[m]

\* C8: every record's risk_score is an integer from 0 to 100, whatever the
\* rule contributions and the noise draw.
C8_RiskScoreInRange ==
    \A k \in 1..Len(rec) : rec[k].risk_score \in 0..100

\* C8's case: the contributions and the noise sum to more than 100.
C8_Witness == rec # << >> /\ rec[1].fraud_score > 100 /\ rec[1].risk_score = 100

\* C9: a record flagged is_fraud has risk_score > 70, and no record with
\* risk_score <= 70 is flagged.
C9_FraudImpliesHighRisk ==
    \A k \in 1..Len(rec) : rec[k].is_fraud => rec[k].risk_score > 70

\* C9's case: a risk_score above 70 that is not flagged.
C9_Witness == rec # << >> /\ rec[1].risk_score > 70 /\ ~rec[1].is_fraud

\* C10: is_private_ip is true exactly when the address was drawn from the
\* private-range branch; no public-range address gets the +20.
C10_FlagIffPrivateBranch ==
    \A k \in 1..Len(rec) :
        /\ rec[k].is_private_ip = rec[k].private_branch
        /\ rec[k].is_private_ip = InPrivateNetwork(rec[k].ip_address)

====
